---- MODULE Spec2Model ----
(***************************************************************************)
(* Model of start_services.py: the launcher that resolves a compose        *)
(* profile, syncs the supabase checkout, copies .env, tears the unified    *)
(* project down and starts the two stacks with a pause in between.         *)
(*                                                                         *)
(* git and docker compose are opaque: each invocation is recorded with its *)
(* argument vector and working directory and returns any exit code.  A     *)
(* sync that returned normally is taken to have left supabase/docker in    *)
(* place, so the only file-not-found source of the copy is the source file.*)
(***************************************************************************)
EXTENDS Integers, Sequences, FiniteSets, TLC

\* Largest exit code a child process is given in the model (0 = success).
MaxExitCode == 1

ExitCodes == 0..MaxExitCode

\* Python's None, as held by args.profile when the flag is absent.
None == "<None>"

\* choices=[...] of the --profile argument.
Choices == {"cpu", "gpu-nvidia", "gpu-amd", "none"}

\* time.sleep(10)
SleepSeconds == 10

\* Paths are sequences of components; the invocation root is <<>>.
Root == <<>>

EnvExamplePath == <<".env">>

EnvPath == <<"supabase", "docker", ".env">>

VARIABLES
    argProfile,   \* args.profile: None or one of Choices
    nvidiaOnPath, \* shutil.which("nvidia-smi") finds something
    kfdExists,    \* os.path.exists("/dev/kfd")
    fsSupabase,   \* os.path.exists("supabase") relative to the root
    srcEnv,       \* content of <root>/.env, or "absent"
    dstEnv,       \* content of <root>/supabase/docker/.env, or "absent"
    cwd,          \* process-wide working directory, relative to the root
    profile,      \* main's local variable `profile`
    pc,           \* position of main
    exc,          \* uncaught exception that ended the run, or "none"
    trace,        \* every probe, child process, copy and sleep, in order
    env0          \* the environment the run started in (history)

vars == <<argProfile, nvidiaOnPath, kfdExists, fsSupabase, srcEnv, dstEnv,
          cwd, profile, pc, exc, trace, env0>>

-----------------------------------------------------------------------------
\* Pure helpers

\* Python truthiness of an Optional[str].
Truthy(v) == v # None /\ v # ""

\* detect_gpu(): the profile it returns.
DetectGpuAmdFirst(nv, kfd) ==
    IF kfd THEN "gpu-amd" ELSE IF nv THEN "gpu-nvidia" ELSE "cpu"

DetectGpu(nv, kfd) ==
    IF nv THEN "gpu-nvidia" ELSE IF kfd THEN "gpu-amd" ELSE "cpu"

Event(step, kind, args, dir, rc, secs) ==
    [step |-> step, kind |-> kind, args |-> args, cwd |-> dir,
     rc |-> rc, secs |-> secs]

\* detect_gpu(): the probes it performs, in order (elif short-circuits).
DetectGpuProbes(nv, dir) ==
    <<Event("detect_gpu", "which", <<"nvidia-smi">>, dir, 0, 0)>> \o
    (IF nv THEN <<>>
     ELSE <<Event("detect_gpu", "exists", <<"/dev/kfd">>, dir, 0, 0)>>)

\* profile = args.profile if args.profile else detect_gpu()
ResolveNoneIsAbsent(arg, nv, kfd) ==
    IF Truthy(arg) /\ arg # "none" THEN arg ELSE DetectGpu(nv, kfd)

ResolvePassThrough(arg, nv, kfd) == arg

ResolveProfileValue(arg, nv, kfd) ==
    IF Truthy(arg) THEN arg ELSE DetectGpu(nv, kfd)

ResolveProbes(arg, nv, dir) ==
    IF Truthy(arg) THEN <<>> ELSE DetectGpuProbes(nv, dir)

\* subprocess.run(..., check=True): a non-zero exit raises CalledProcessError.
CheckFalse(rc) == FALSE

CheckTrue(rc) == rc # 0

\* os.chdir(arg) with a relative one-component argument.
ChdirNoParent(dir, arg) ==
    IF arg = ".." THEN dir ELSE Append(dir, arg)

Chdir(dir, arg) ==
    IF arg = ".."
    THEN (IF Len(dir) = 0 THEN dir ELSE SubSeq(dir, 1, Len(dir) - 1))
    ELSE Append(dir, arg)

\* A relative path as the operating system resolves it.
Resolve(dir, path) == dir \o path

-----------------------------------------------------------------------------
\* Argument vectors

GitCloneCmd ==
    <<"git", "clone", "--filter=blob:none", "--no-checkout",
      "https://github.com/supabase/supabase.git">>

SparseInitCmd == <<"git", "sparse-checkout", "init", "--cone">>

SparseSetCmd == <<"git", "sparse-checkout", "set", "docker">>

GitCheckoutCmd == <<"git", "checkout", "master">>

GitPullCmd == <<"git", "pull">>

StopCmd ==
    <<"docker", "compose", "-p", "smart-kit-lm",
      "-f", "docker-compose.yml",
      "-f", "supabase/docker/docker-compose.yml", "down">>

StartSupabaseCmdWithProfile ==
    <<"docker", "compose", "-p", "smart-kit-lm", "--profile", "cpu",
      "-f", "supabase/docker/docker-compose.yml", "up", "-d">>

StartSupabaseCmd ==
    <<"docker", "compose", "-p", "smart-kit-lm",
      "-f", "supabase/docker/docker-compose.yml", "up", "-d">>

StartLocalAiCmdAlwaysProfile(p) ==
    LET cmd0 == <<"docker", "compose", "-p", "smart-kit-lm">>
        cmd1 == IF Truthy(p) THEN cmd0 \o <<"--profile", p>> ELSE cmd0
    IN  cmd1 \o <<"-f", "docker-compose.yml", "up", "-d">>

StartLocalAiCmd(p) ==
    LET cmd0 == <<"docker", "compose", "-p", "smart-kit-lm">>
        cmd1 == IF Truthy(p) /\ p # "none"
                THEN cmd0 \o <<"--profile", p>> ELSE cmd0
    IN  cmd1 \o <<"-f", "docker-compose.yml", "up", "-d">>

-----------------------------------------------------------------------------
\* State machine

Init ==
    /\ argProfile \in Choices \cup {None}
    /\ nvidiaOnPath \in BOOLEAN
    /\ kfdExists \in BOOLEAN
    /\ fsSupabase \in BOOLEAN
    /\ srcEnv \in {"absent", "new"}
    /\ dstEnv \in {"absent", "old", "new"}
    /\ (~fsSupabase => dstEnv = "absent")
    /\ cwd = Root
    /\ profile = "unresolved"
    /\ pc = "resolve"
    /\ exc = "none"
    /\ trace = <<>>
    /\ env0 = [dir |-> fsSupabase, dst |-> dstEnv]

\* run_command(cmd) issued by `step`: the child runs in the current working
\* directory; success continues at `next` with working directory `dirAfter`.
RunCommand(step, cmd, next, dirAfter) ==
    \E rc \in ExitCodes :
        /\ trace' = Append(trace, Event(step, "run", cmd, cwd, rc, 0))
        /\ IF CheckTrue(rc)
           THEN /\ pc' = "failed"
                /\ exc' = "CalledProcessError"
                /\ cwd' = cwd
           ELSE /\ pc' = next
                /\ exc' = exc
                /\ cwd' = dirAfter

\* main, lines 87-93
ResolveProfile ==
    /\ pc = "resolve"
    /\ profile' = ResolveProfileValue(argProfile, nvidiaOnPath, kfdExists)
    /\ trace' = trace \o ResolveProbes(argProfile, nvidiaOnPath, cwd)
    /\ pc' = "sync"
    /\ UNCHANGED <<argProfile, nvidiaOnPath, kfdExists, fsSupabase, srcEnv,
                   dstEnv, cwd, exc, env0>>

\* clone_supabase_repo, the test of line 35 and the chdir of line 48
SyncBegin ==
    /\ pc = "sync"
    /\ trace' = Append(trace, Event("clone_supabase_repo", "exists",
                                    <<"supabase">>, cwd, 0, 0))
    /\ IF ~fsSupabase
       THEN /\ pc' = "git_clone"
            /\ cwd' = cwd
       ELSE /\ pc' = "git_pull"
            /\ cwd' = Chdir(cwd, "supabase")
    /\ UNCHANGED <<argProfile, nvidiaOnPath, kfdExists, fsSupabase, srcEnv,
                   dstEnv, profile, exc, env0>>

\* lines 37-41: git clone, then chdir into the new directory
GitClone ==
    /\ pc = "git_clone"
    /\ RunCommand("clone_supabase_repo", GitCloneCmd, "sparse_init",
                  Chdir(cwd, "supabase"))
    /\ fsSupabase' = (fsSupabase \/ pc' = "sparse_init")
    /\ UNCHANGED <<argProfile, nvidiaOnPath, kfdExists, srcEnv, dstEnv,
                   profile, env0>>

\* line 42
SparseInit ==
    /\ pc = "sparse_init"
    /\ RunCommand("clone_supabase_repo", SparseInitCmd, "sparse_set", cwd)
    /\ UNCHANGED <<argProfile, nvidiaOnPath, kfdExists, fsSupabase, srcEnv,
                   dstEnv, profile, env0>>

\* line 43
SparseSet ==
    /\ pc = "sparse_set"
    /\ RunCommand("clone_supabase_repo", SparseSetCmd, "git_checkout", cwd)
    /\ UNCHANGED <<argProfile, nvidiaOnPath, kfdExists, fsSupabase, srcEnv,
                   dstEnv, profile, env0>>

\* lines 44-45
GitCheckoutThenPull ==
    /\ pc = "git_checkout"
    /\ RunCommand("clone_supabase_repo", GitCheckoutCmd, "git_pull", cwd)
    /\ UNCHANGED <<argProfile, nvidiaOnPath, kfdExists, fsSupabase, srcEnv,
                   dstEnv, profile, env0>>

GitCheckout ==
    /\ pc = "git_checkout"
    /\ RunCommand("clone_supabase_repo", GitCheckoutCmd, "prepare_env",
                  Chdir(cwd, ".."))
    /\ UNCHANGED <<argProfile, nvidiaOnPath, kfdExists, fsSupabase, srcEnv,
                   dstEnv, profile, env0>>

\* lines 49-50
GitPull ==
    /\ pc = "git_pull"
    /\ RunCommand("clone_supabase_repo", GitPullCmd, "prepare_env",
                  Chdir(cwd, ".."))
    /\ UNCHANGED <<argProfile, nvidiaOnPath, kfdExists, fsSupabase, srcEnv,
                   dstEnv, profile, env0>>

\* shutil.copyfile(src, dst): whether opening the source succeeds.
SourceReadableAlways(dir) == TRUE

SourceReadable(dir) ==
    Resolve(dir, EnvExamplePath) = EnvExamplePath /\ srcEnv # "absent"

\* prepare_supabase_env
PrepareSupabaseEnv ==
    /\ pc = "prepare_env"
    /\ trace' = Append(trace, Event("prepare_supabase_env", "copyfile",
                                    EnvExamplePath \o EnvPath, cwd,
                                    IF SourceReadable(cwd) THEN 0 ELSE 1, 0))
    /\ IF SourceReadable(cwd)
       THEN /\ dstEnv' = (IF Resolve(cwd, EnvPath) = EnvPath
                          THEN srcEnv ELSE dstEnv)
            /\ pc' = "stop"
            /\ exc' = exc
       ELSE /\ dstEnv' = dstEnv
            /\ pc' = "failed"
            /\ exc' = "FileNotFoundError"
    /\ UNCHANGED <<argProfile, nvidiaOnPath, kfdExists, fsSupabase, srcEnv,
                   cwd, profile, env0>>

\* stop_existing_containers
StopExistingContainersIfPresent ==
    /\ pc = "stop"
    /\ IF env0.dir
       THEN RunCommand("stop_existing_containers", StopCmd,
                       "start_supabase", cwd)
       ELSE /\ pc' = "start_supabase"
            /\ UNCHANGED <<trace, exc, cwd>>
    /\ UNCHANGED <<argProfile, nvidiaOnPath, kfdExists, fsSupabase, srcEnv,
                   dstEnv, profile, env0>>

StopExistingContainers ==
    /\ pc = "stop"
    /\ RunCommand("stop_existing_containers", StopCmd, "start_supabase", cwd)
    /\ UNCHANGED <<argProfile, nvidiaOnPath, kfdExists, fsSupabase, srcEnv,
                   dstEnv, profile, env0>>

\* start_supabase
StartSupabase ==
    /\ pc = "start_supabase"
    /\ RunCommand("start_supabase", StartSupabaseCmd, "sleep", cwd)
    /\ UNCHANGED <<argProfile, nvidiaOnPath, kfdExists, fsSupabase, srcEnv,
                   dstEnv, profile, env0>>

\* main, line 104
Sleep ==
    /\ pc = "sleep"
    /\ trace' = Append(trace, Event("main", "sleep", <<>>, cwd, 0,
                                    SleepSeconds))
    /\ pc' = "start_local_ai"
    /\ UNCHANGED <<argProfile, nvidiaOnPath, kfdExists, fsSupabase, srcEnv,
                   dstEnv, cwd, profile, exc, env0>>

\* start_local_ai(profile), called from main line 107
StartLocalAi ==
    /\ pc = "start_local_ai"
    /\ RunCommand("start_local_ai", StartLocalAiCmd(profile), "done", cwd)
    /\ UNCHANGED <<argProfile, nvidiaOnPath, kfdExists, fsSupabase, srcEnv,
                   dstEnv, profile, env0>>

Next ==
    \/ ResolveProfile
    \/ SyncBegin
    \/ GitClone
    \/ SparseInit
    \/ SparseSet
    \/ GitCheckout
    \/ GitPull
    \/ PrepareSupabaseEnv
    \/ StopExistingContainers
    \/ StartSupabase
    \/ Sleep
    \/ StartLocalAi

Spec == Init /\ [][Next]_vars

-----------------------------------------------------------------------------
\* Vocabulary of the properties

Terminated == pc \in {"done", "failed"}

Idx == 1..Len(trace)

IsRun(e) == e.kind = "run"

IsCompose(e) == IsRun(e) /\ e.args[1] = "docker" /\ e.args[2] = "compose"

IsDown(e) == IsCompose(e) /\ e.args[Len(e.args)] = "down"

IsUp(e) == IsCompose(e) /\ e.args[Len(e.args) - 1] = "up"

IsHardwareProbe(e) ==
    \/ e.kind = "which" /\ e.args = <<"nvidia-smi">>
    \/ e.kind = "exists" /\ e.args = <<"/dev/kfd">>

Positions(args, word) == {k \in 1..Len(args) : args[k] = word}

DownIdx == {i \in Idx : IsDown(trace[i])}

\* What the operator of the launcher observes: everything but the probes.
Observed == SelectSeq(trace, LAMBDA e : e.kind \notin {"which", "exists"})

GitArgs ==
    LET g == SelectSeq(trace, LAMBDA e : IsRun(e) /\ e.args[1] = "git")
    IN  [i \in 1..Len(g) |-> g[i].args]

IsPrefix(s, t) == Len(s) <= Len(t) /\ s = SubSeq(t, 1, Len(s))

CloneSequence ==
    << <<"git", "clone", "--filter=blob:none", "--no-checkout",
         "https://github.com/supabase/supabase.git">>,
       <<"git", "sparse-checkout", "init", "--cone">>,
       <<"git", "sparse-checkout", "set", "docker">>,
       <<"git", "checkout", "master">> >>

PullSequence == << <<"git", "pull">> >>

SyncReturned ==
    pc \in {"prepare_env", "stop", "start_supabase", "sleep",
            "start_local_ai", "done"}
    \/ \E i \in Idx : trace[i].step # "clone_supabase_repo"
                      /\ trace[i].step # "detect_gpu"

-----------------------------------------------------------------------------
\* C1: a child process that exits non-zero is the last thing the run does:
\* no probe, command, copy or pause follows it, the run has stopped with
\* CalledProcessError and has not ended with success.
C1_FailureHalts ==
    \A i \in Idx :
        (IsRun(trace[i]) /\ trace[i].rc # 0) =>
            /\ i = Len(trace)
            /\ pc = "failed"
            /\ exc = "CalledProcessError"

C1_Witness ==
    /\ pc = "failed"
    /\ exc = "CalledProcessError"
    /\ Len(trace) > 0
    /\ trace[Len(trace)].args = SparseInitCmd
    /\ trace[Len(trace)].rc # 0

\* C2 (as stated): every run that has ended invoked teardown exactly once,
\* and teardown precedes both startup invocations.
C2_TeardownOncePerRun ==
    /\ Terminated => Cardinality(DownIdx) = 1
    /\ \A j \in Idx : IsUp(trace[j]) => \E i \in DownIdx : i < j

\* C2 (amended): teardown is invoked at most once in any run and exactly
\* once in every run whose dependency sync and env copy succeeded; it
\* precedes both startup invocations, whether or not the dependency
\* directory existed at the start.
C2_TeardownOnceAfterCopy ==
    /\ Cardinality(DownIdx) <= 1
    /\ ((\E i \in Idx : trace[i].kind = "copyfile" /\ trace[i].rc = 0)
        /\ pc # "stop") => Cardinality(DownIdx) = 1
    /\ \A j \in Idx : IsUp(trace[j]) => \E i \in DownIdx : i < j
    /\ \A i \in DownIdx : Cardinality(Positions(trace[i].args, "-f")) = 2

C2_Witness ==
    /\ pc = "done"
    /\ ~env0.dir
    /\ Cardinality(DownIdx) = 1
    /\ Cardinality({j \in Idx : IsUp(trace[j])}) = 2

\* C3: a run that ends with success has shown exactly: the sync commands,
\* the env copy, compose down with two -f, compose up -d for stack A without
\* --profile, a pause of 10, compose up -d for stack B; each once, in that
\* order, each after the previous one returned zero.  With --profile gpu-amd
\* and an existing directory the sequence is pull, copy, down, up A, pause,
\* up B --profile gpu-amd.
C3_SuccessSequence ==
    pc = "done" =>
        LET o == Observed
            n == Len(o)
        IN  /\ n = (IF env0.dir THEN 1 ELSE 4) + 5
            /\ \A i \in 1..n : o[i].rc = 0
            /\ [i \in 1..(n - 5) |-> o[i].args]
                   = (IF env0.dir THEN PullSequence ELSE CloneSequence)
            /\ o[n - 4].kind = "copyfile"
            /\ IsDown(o[n - 3])
            /\ Cardinality(Positions(o[n - 3].args, "-f")) = 2
            /\ o[n - 2].args =
                   <<"docker", "compose", "-p", "smart-kit-lm", "-f",
                     "supabase/docker/docker-compose.yml", "up", "-d">>
            /\ o[n - 1].kind = "sleep" /\ o[n - 1].secs = 10
            /\ IsUp(o[n]) /\ o[n].args[Len(o[n].args)] = "-d"
            /\ Positions(o[n].args, "docker-compose.yml") # {}
            /\ (argProfile = "gpu-amd" =>
                   o[n].args =
                       <<"docker", "compose", "-p", "smart-kit-lm",
                         "--profile", "gpu-amd", "-f", "docker-compose.yml",
                         "up", "-d">>)

C3_Witness ==
    /\ pc = "done"
    /\ argProfile = "gpu-amd"
    /\ env0.dir
    /\ Len(Observed) = 6

\* C4: the stack B invocation has no --profile argument when the profile is
\* "none"; otherwise it has exactly one --profile, immediately followed by
\* the profile, after -p smart-kit-lm and before -f.
C4_ProfileArgument ==
    \A i \in Idx :
        trace[i].step = "start_local_ai" =>
            LET a == trace[i].args
                at == Positions(a, "--profile")
            IN  IF profile = "none"
                THEN at = {}
                ELSE /\ Cardinality(at) = 1
                     /\ \A k \in at :
                            /\ k < Len(a) /\ a[k + 1] = profile
                            /\ \A q \in Positions(a, "-p") : q + 1 < k
                            /\ \A f \in Positions(a, "-f") : k + 1 < f
                     /\ Positions(a, "-p") # {}
                     /\ Positions(a, "-f") # {}

C4_Witness ==
    /\ pc = "done"
    /\ profile = "none"
    /\ trace[Len(trace)].step = "start_local_ai"
    /\ Positions(trace[Len(trace)].args, "--profile") = {}

\* C5 (as stated): a run issues exactly git pull when the directory was
\* present and exactly clone, sparse-checkout init, sparse-checkout set,
\* checkout when it was absent.
C5_SyncIssuesWholeSequence ==
    (Terminated \/ SyncReturned) =>
        GitArgs = (IF env0.dir THEN PullSequence ELSE CloneSequence)

\* C5 (amended): with the directory present the only git command is one
\* pull; with it absent the git commands are clone, sparse-checkout init,
\* sparse-checkout set, checkout in that order up to the first one that
\* fails, all four when sync returns, and never a pull.  Nothing but the
\* existence of the directory is inspected.
C5_SyncSequenceUntilFailure ==
    /\ IsPrefix(GitArgs, IF env0.dir THEN PullSequence ELSE CloneSequence)
    /\ SyncReturned =>
           GitArgs = (IF env0.dir THEN PullSequence ELSE CloneSequence)
    /\ (Len(GitArgs) < (IF env0.dir THEN 1 ELSE 4) /\ Terminated) =>
           /\ exc = "CalledProcessError"
           /\ trace[Len(trace)].args = GitArgs[Len(GitArgs)]
    /\ \A i \in Idx :
           (trace[i].step = "clone_supabase_repo" /\ ~IsRun(trace[i])) =>
               trace[i].kind = "exists" /\ trace[i].args = <<"supabase">>
    /\ Cardinality({i \in Idx : trace[i].step = "clone_supabase_repo"
                                /\ ~IsRun(trace[i])}) <= 1

C5_Witness ==
    /\ ~env0.dir
    /\ pc = "prepare_env"
    /\ GitArgs = CloneSequence

\* C6: an explicit --profile value, "none" included, is the resolved profile
\* and no hardware probe is made.
C6_ExplicitProfile ==
    (argProfile \in Choices /\ pc # "resolve") =>
        /\ profile = argProfile
        /\ \A i \in Idx : ~IsHardwareProbe(trace[i])

C6_Witness ==
    /\ argProfile = "none"
    /\ profile = "none"
    /\ nvidiaOnPath
    /\ pc = "done"

\* C7: without the flag the profile is gpu-nvidia when nvidia-smi is found,
\* else gpu-amd when /dev/kfd exists, else cpu; the probes themselves never
\* end the run.
C7_AutoDetect ==
    (argProfile = None /\ pc # "resolve") =>
        /\ nvidiaOnPath => profile = "gpu-nvidia"
        /\ (~nvidiaOnPath /\ kfdExists) => profile = "gpu-amd"
        /\ (~nvidiaOnPath /\ ~kfdExists) => profile = "cpu"
        /\ \E i \in Idx : IsHardwareProbe(trace[i])
        /\ pc = "failed" => ~IsHardwareProbe(trace[Len(trace)])
        /\ pc = "sync" => exc = "none"

C7_Witness ==
    /\ argProfile = None
    /\ nvidiaOnPath
    /\ kfdExists
    /\ profile = "gpu-nvidia"
    /\ pc = "sync"

C9_ProfileResolvedOnce ==
    /\ [](/\ (pc # "resolve") => profile \in Choices
          /\ (\E i \in Idx : IsRun(trace[i])) => profile \in Choices
          /\ \A i \in Idx : trace[i].step = "start_local_ai" =>
                 \E p \in Choices :
                     /\ p = profile
                     /\ Positions(trace[i].args, None) = {}
                     /\ Positions(trace[i].args, "unresolved") = {})
    /\ [][profile' # profile =>
             /\ profile = "unresolved"
             /\ \A i \in Idx : ~IsRun(trace[i])]_vars

C9_Witness ==
    /\ argProfile = None
    /\ ~nvidiaOnPath
    /\ ~kfdExists
    /\ profile = "cpu"
    /\ pc = "done"

\* C10: the env copy and every docker compose command run in the invocation
\* root; the working directory is inside supabase only around the
\* sparse-checkout, checkout and pull commands, and after a failure of one
\* of them nothing else runs; once sync has returned it is the root again.
C10_WorkingDirectory ==
    /\ \A i \in Idx :
           (trace[i].kind = "copyfile" \/ IsCompose(trace[i])) =>
               trace[i].cwd = Root
    /\ \A i \in Idx :
           trace[i].cwd # Root =>
               /\ trace[i].cwd = <<"supabase">>
               /\ trace[i].args \in
                      { <<"git", "sparse-checkout", "init", "--cone">>,
                        <<"git", "sparse-checkout", "set", "docker">>,
                        <<"git", "checkout", "master">>,
                        <<"git", "pull">> }
    /\ cwd # Root =>
           \/ pc \in {"sparse_init", "sparse_set", "git_checkout", "git_pull"}
           \/ /\ pc = "failed"
              /\ trace[Len(trace)].cwd # Root
              /\ trace[Len(trace)].rc # 0
    /\ SyncReturned => cwd = Root

C10_Witness ==
    /\ pc = "done"
    /\ cwd = Root
    /\ \E i \in Idx : trace[i].cwd = <<"supabase">>
    /\ \E i \in Idx : trace[i].kind = "copyfile" /\ trace[i].cwd = Root

====
